---- MODULE Spec2Model ----
(***************************************************************************)
(* Model of task2.0.py: an image obfuscation tool.  Two pixel primitives   *)
(* (swap_pixels, xor_pixels), the orchestrators encrypt_array and          *)
(* decrypt_array, process_image (decode, transform, encode, confirm) and   *)
(* the command line front end main with its key validator positive_int.    *)
(*                                                                         *)
(* Spec    : one invocation of main over a small file system.              *)
(* SpecLib : the array functions applied repeatedly to an in-memory        *)
(*           buffer with one key and one mode, for every key in 0..255.    *)
(*                                                                         *)
(* A buffer is a sequence of rows, a row a sequence of pixels, a pixel a   *)
(* sequence of 3 channel values: arr[i][j][c] is numpy's arr[i-1,j-1,c-1]. *)
(***************************************************************************)
EXTENDS Integers, Sequences, FiniteSets, Bags, TLC

VARIABLES
    pc,          \* position of main / process_image ("lib" under SpecLib)
    argv,        \* the command line as given
    args,        \* the parsed argparse Namespace
    fs,          \* file system: path -> file content
    fs0,         \* the file system when the invocation started (history)
    arr,         \* the decoded buffer (the starting buffer under SpecLib)
    result_arr,  \* the transformed buffer
    calls,       \* trace of the primitive calls of the latest orchestrator call
    applied,     \* trace of the orchestrator calls ("encrypt" / "decrypt")
    events,      \* trace of the file I/O and transform steps of process_image
    stdout,      \* messages printed
    stderr,      \* "usage" (argparse error) or "traceback" (uncaught exception)
    exitcode     \* process exit status, Running while the process runs

vars == <<pc, argv, args, fs, fs0, arr, result_arr, calls, applied, events,
          stdout, stderr, exitcode>>

----------------------------------------------------------------------------
(* Bounds of the model *)

MaxH == 2
MaxW == 2
MaxApplied == 2

(* Program constants *)

Channels == 3
UInt8Bits == 8
KeyMin == 0
KeyMax == 255
DefaultKey == 123
ExitOk == 0
ExitError == 1
ExitUsage == 2

Running == 0 - 1
NoKey == 0 - 1
None == <<>>

Operations == {"encrypt", "decrypt"}
Modes == {"swap", "math", "both"}
DefaultMode == "both"
Keys == KeyMin..KeyMax

----------------------------------------------------------------------------
(* Buffers *)

Height(a) == Len(a)
Width(a) == Len(a[1])

\* Sample buffers: element (i, j, c) is base + step * (flat index), mod 256.
GenBuffer(h, w, base, step) ==
    [i \in 1..h |-> [j \in 1..w |-> [c \in 1..Channels |->
        (base + step * (Channels * ((i - 1) * w + (j - 1)) + (c - 1))) % 256]]]

Seeds == {<<0, 1>>, <<250, 7>>}

Shapes == {<<1, 1>>, <<1, MaxW>>, <<MaxH, 1>>, <<MaxH, MaxW>>}

\* Every shape with every seed, and the all-zero buffer of the largest shape.
Buffers ==
    {GenBuffer(d[1], d[2], s[1], s[2]) : d \in Shapes, s \in Seeds}
        \cup {GenBuffer(MaxH, MaxW, 0, 0)}

----------------------------------------------------------------------------
(* Pixel transform primitives *)

\* Mutant of swap_pixels: arr[::-1], the rows reversed only.
swap_pixels_rows_only(a) ==
    [i \in 1..Height(a) |-> a[Height(a) + 1 - i]]

\* arr[::-1, ::-1]: rows reversed and, inside every row, columns reversed.
swap_pixels(a) ==
    [i \in 1..Height(a) |-> [j \in 1..Width(a) |->
        a[Height(a) + 1 - i][Width(a) + 1 - j]]]

\* Bitwise exclusive or of the n low bits of two naturals.
RECURSIVE bitwise_xor(_, _, _)
bitwise_xor(x, y, n) ==
    IF n = 0 THEN 0
    ELSE (((x % 2) + (y % 2)) % 2) + 2 * bitwise_xor(x \div 2, y \div 2, n - 1)

\* .astype(np.uint8): reduction modulo 2^8.
astype_uint8(v) == v % (2 ^ UInt8Bits)

\* Mutants of xor_pixels: bitwise or instead of exclusive or; addition
\* modulo 256; addition without the cast to uint8; only the first channel.
RECURSIVE bitwise_or(_, _, _)
bitwise_or(x, y, n) ==
    IF n = 0 THEN 0
    ELSE (IF (x % 2) + (y % 2) > 0 THEN 1 ELSE 0)
             + 2 * bitwise_or(x \div 2, y \div 2, n - 1)

xor_pixels_or(a, key) ==
    [i \in 1..Height(a) |-> [j \in 1..Width(a) |-> [c \in 1..Len(a[i][j]) |->
        astype_uint8(bitwise_or(a[i][j][c], key, UInt8Bits))]]]

xor_pixels_add(a, key) ==
    [i \in 1..Height(a) |-> [j \in 1..Width(a) |-> [c \in 1..Len(a[i][j]) |->
        astype_uint8(a[i][j][c] + key)]]]

xor_pixels_no_cast(a, key) ==
    [i \in 1..Height(a) |-> [j \in 1..Width(a) |-> [c \in 1..Len(a[i][j]) |->
        a[i][j][c] + key]]]

xor_pixels_first_channel(a, key) ==
    [i \in 1..Height(a) |-> [j \in 1..Width(a) |-> [c \in 1..Len(a[i][j]) |->
        IF c = 1 THEN astype_uint8(bitwise_xor(a[i][j][c], key, UInt8Bits))
        ELSE a[i][j][c]]]]

\* np.bitwise_xor(arr, key).astype(np.uint8), element by element.
xor_pixels(a, key) ==
    [i \in 1..Height(a) |-> [j \in 1..Width(a) |-> [c \in 1..Len(a[i][j]) |->
        astype_uint8(bitwise_xor(a[i][j][c], key, UInt8Bits))]]]

----------------------------------------------------------------------------
(* Transform orchestrators.  A frame is the local variable arr of the      *)
(* orchestrator together with the trace of the primitive calls made.       *)

Frame(a, trace) == [arr |-> a, calls |-> trace]

call_xor_pixels(f, key) ==
    LET out == xor_pixels(f.arr, key)
    IN  Frame(out, Append(f.calls,
            [fn |-> "xor_pixels", key |-> key, arg |-> f.arr, ret |-> out]))

call_swap_pixels(f) ==
    LET out == swap_pixels(f.arr)
    IN  Frame(out, Append(f.calls,
            [fn |-> "swap_pixels", key |-> NoKey, arg |-> f.arr, ret |-> out]))

encrypt_array(a, key, mode) ==
    LET f0 == Frame(a, <<>>)
        f1 == IF mode \in {"math", "both"} THEN call_xor_pixels(f0, key) ELSE f0
        f2 == IF mode \in {"swap", "both"} THEN call_swap_pixels(f1) ELSE f1
    IN  f2

\* Mutants of decrypt_array: the order of encrypt_array; the reversal taken
\* only in mode swap.
decrypt_array_same_order(a, key, mode) == encrypt_array(a, key, mode)

decrypt_array_no_swap_in_both(a, key, mode) ==
    LET f0 == Frame(a, <<>>)
        f1 == IF mode = "swap" THEN call_swap_pixels(f0) ELSE f0
        f2 == IF mode \in {"math", "both"} THEN call_xor_pixels(f1, key) ELSE f1
    IN  f2

decrypt_array(a, key, mode) ==
    LET f0 == Frame(a, <<>>)
        f1 == IF mode \in {"swap", "both"} THEN call_swap_pixels(f0) ELSE f0
        f2 == IF mode \in {"math", "both"} THEN call_xor_pixels(f1, key) ELSE f1
    IN  f2

----------------------------------------------------------------------------
(* Files.  A file is missing, holds bytes that are no image ("data"), or   *)
(* holds a losslessly stored raster image of mode "RGB" (3 channels per    *)
(* pixel) or "L" (one grey value per pixel).                               *)

Paths == {"a.png", "b.png"}

Missing == [kind |-> "missing", mode |-> "", px |-> None]
NotImage == [kind |-> "data", mode |-> "", px |-> None]
ImageFile(mode, px) == [kind |-> "image", mode |-> mode, px |-> px]

GreyRaster(h, w) == [i \in 1..h |-> [j \in 1..w |-> (40 * i + 100 * j) % 256]]

InitialFiles ==
    {ImageFile("RGB", b) : b \in Buffers}
        \cup {ImageFile("L", GreyRaster(MaxH, MaxW)), NotImage}

\* os.path.isfile(path)
isfile(files, path) == files[path].kind /= "missing"

\* img.convert("RGB") followed by np.array(img): always height x width x 3.
convert_rgb(f) ==
    IF f.mode = "RGB" THEN f.px
    ELSE [i \in 1..Len(f.px) |-> [j \in 1..Len(f.px[i]) |->
            [c \in 1..Channels |-> f.px[i][j]]]]

\* np.array(Image.open(input_path).convert("RGB")); ok is FALSE when
\* Image.open raises.
decode(f) ==
    IF f.kind = "image" THEN [ok |-> TRUE, arr |-> convert_rgb(f)]
    ELSE [ok |-> FALSE, arr |-> None]

\* Image.fromarray(result_arr) as written by save(output_path).
encode(a) == ImageFile("RGB", a)

----------------------------------------------------------------------------
(* Command line *)

Digit ==
    ("0" :> 0) @@ ("1" :> 1) @@ ("2" :> 2) @@ ("3" :> 3) @@ ("4" :> 4) @@
    ("5" :> 5) @@ ("6" :> 6) @@ ("7" :> 7) @@ ("8" :> 8) @@ ("9" :> 9)

RECURSIVE digits_value(_)
digits_value(s) ==
    IF s = <<>> THEN 0
    ELSE 10 * digits_value(SubSeq(s, 1, Len(s) - 1)) + Digit[s[Len(s)]]

\* int(value) on a text without blanks or underscores: an optional sign and
\* at least one decimal digit; ok is FALSE when int raises ValueError.
int(text) ==
    LET signed == text /= <<>> /\ text[1] \in {"+", "-"}
        body == IF signed THEN Tail(text) ELSE text
    IN  IF body = <<>> \/ \E i \in 1..Len(body) : body[i] \notin DOMAIN Digit
        THEN [ok |-> FALSE, val |-> 0]
        ELSE [ok |-> TRUE,
              val |-> IF signed /\ text[1] = "-" THEN 0 - digits_value(body)
                      ELSE digits_value(body)]

\* Mutant of positive_int: the upper limit off by one.
positive_int_off_by_one(value) ==
    LET ivalue == int(value)
    IN  IF ~ivalue.ok THEN [ok |-> FALSE, val |-> 0]
        ELSE IF ~(KeyMin <= ivalue.val /\ ivalue.val <= KeyMax + 1)
             THEN [ok |-> FALSE, val |-> 0]
             ELSE [ok |-> TRUE, val |-> ivalue.val]

\* ok is FALSE when positive_int raises argparse.ArgumentTypeError.
positive_int(value) ==
    LET ivalue == int(value)
    IN  IF ~ivalue.ok THEN [ok |-> FALSE, val |-> 0]
        ELSE IF ~(KeyMin <= ivalue.val /\ ivalue.val <= KeyMax)
             THEN [ok |-> FALSE, val |-> 0]
             ELSE [ok |-> TRUE, val |-> ivalue.val]

Omitted == [given |-> FALSE, text |-> <<>>]
Given(t) == [given |-> TRUE, text |-> t]

KeyTexts ==
    {<<"0">>, <<"1", "0">>, <<"2", "5", "5">>, <<"2", "5", "6">>, <<"-", "1">>,
     <<"+", "7">>, <<"0", "1", "2", "8">>, <<"a", "b", "c">>, <<"1", ".", "5">>,
     <<"-">>, <<>>}

ModeTexts == {<<"swap">>, <<"math">>, <<"both">>, <<"fast">>}

Argvs ==
    [operation : Operations \cup {"shred"},
     input : Paths,
     output : Paths,
     key : {Omitted} \cup {Given(t) : t \in KeyTexts},
     mode : {Omitted} \cup {Given(t) : t \in ModeTexts}]

NoArgv ==
    [operation |-> "", input |-> "", output |-> "", key |-> Omitted,
     mode |-> Omitted]

Namespace(op, in, out, key, mode) ==
    [operation |-> op, input |-> in, output |-> out, key |-> key, mode |-> mode]

NoArgs == Namespace("", "", "", NoKey, "")

\* parser.parse_args(): ok is FALSE when argparse reports a usage error.
parse_args(a) ==
    LET key == IF a.key.given THEN positive_int(a.key.text)
               ELSE [ok |-> TRUE, val |-> DefaultKey]
        mode == IF a.mode.given THEN a.mode.text[1] ELSE DefaultMode
    IN  IF a.operation \in Operations /\ key.ok /\ mode \in Modes
        THEN [ok |-> TRUE,
              ns |-> Namespace(a.operation, a.input, a.output, key.val, mode)]
        ELSE [ok |-> FALSE, ns |-> NoArgs]

\* operation.capitalize()
capitalize(op) == IF op = "encrypt" THEN "Encrypt" ELSE "Decrypt"

ErrorMessage(path) == [text |-> "Error: input file does not exist", path |-> path]
SavedMessage(op, path) ==
    [text |-> IF capitalize(op) = "Encrypt" THEN "Encrypted image saved to"
              ELSE "Decrypted image saved to",
     path |-> path]

----------------------------------------------------------------------------
(* One invocation of main *)

Init ==
    /\ pc = "parse_args"
    /\ argv \in Argvs
    /\ args = NoArgs
    /\ \E f \in InitialFiles : fs = [p \in Paths |-> IF p = "a.png" THEN f ELSE Missing]
    /\ fs0 = fs
    /\ arr = None
    /\ result_arr = None
    /\ calls = <<>>
    /\ applied = <<>>
    /\ events = <<>>
    /\ stdout = <<>>
    /\ stderr = <<>>
    /\ exitcode = Running

\* args = parser.parse_args(); a usage error ends the process with status 2.
ParseArgs ==
    /\ pc = "parse_args"
    /\ LET r == parse_args(argv)
       IN  IF r.ok
           THEN /\ args' = r.ns
                /\ pc' = "isfile"
                /\ UNCHANGED <<stderr, exitcode>>
           ELSE /\ stderr' = Append(stderr, "usage")
                /\ exitcode' = ExitUsage
                /\ pc' = "exit"
                /\ UNCHANGED args
    /\ UNCHANGED <<argv, fs, fs0, arr, result_arr, calls, applied, events, stdout>>

\* Mutant of CheckInput: the message is printed but the return is missing.
CheckInput_no_return ==
    /\ pc = "isfile"
    /\ IF ~isfile(fs, args.input)
       THEN stdout' = Append(stdout, ErrorMessage(args.input))
       ELSE UNCHANGED stdout
    /\ pc' = "open"
    /\ UNCHANGED <<argv, args, fs, fs0, arr, result_arr, calls, applied, events,
                   stderr, exitcode>>

\* if not os.path.isfile(args.input): print(...); return
CheckInput ==
    /\ pc = "isfile"
    /\ IF ~isfile(fs, args.input)
       THEN /\ stdout' = Append(stdout, ErrorMessage(args.input))
            /\ exitcode' = ExitOk
            /\ pc' = "exit"
       ELSE /\ pc' = "open"
            /\ UNCHANGED <<stdout, exitcode>>
    /\ UNCHANGED <<argv, args, fs, fs0, arr, result_arr, calls, applied, events, stderr>>

\* process_image: img = Image.open(input_path).convert("RGB"); arr = np.array(img)
Open ==
    /\ pc = "open"
    /\ LET d == decode(fs[args.input])
       IN  IF d.ok
           THEN /\ arr' = d.arr
                /\ events' = Append(events, "decode")
                /\ pc' = "transform"
                /\ UNCHANGED <<stderr, exitcode>>
           ELSE /\ events' = Append(events, "decode_failed")
                /\ stderr' = Append(stderr, "traceback")
                /\ exitcode' = ExitError
                /\ pc' = "exit"
                /\ UNCHANGED arr
    /\ UNCHANGED <<argv, args, fs, fs0, result_arr, calls, applied, stdout>>

\* process_image: the dispatch on operation.
Transform ==
    /\ pc = "transform"
    /\ IF args.operation \in Operations
       THEN LET f == IF args.operation = "encrypt"
                     THEN encrypt_array(arr, args.key, args.mode)
                     ELSE decrypt_array(arr, args.key, args.mode)
            IN  /\ result_arr' = f.arr
                /\ calls' = f.calls
                /\ applied' = Append(applied, args.operation)
                /\ events' = Append(events, "transform")
                /\ pc' = "save"
                /\ UNCHANGED <<stderr, exitcode>>
       ELSE /\ stderr' = Append(stderr, "traceback")
            /\ exitcode' = ExitError
            /\ pc' = "exit"
            /\ UNCHANGED <<result_arr, calls, applied, events>>
    /\ UNCHANGED <<argv, args, fs, fs0, arr, stdout>>

\* process_image: Image.fromarray(result_arr).save(output_path) succeeds.
Save ==
    /\ pc = "save"
    /\ fs' = [fs EXCEPT ![args.output] = encode(result_arr)]
    /\ events' = Append(events, "encode")
    /\ pc' = "print"
    /\ UNCHANGED <<argv, args, fs0, arr, result_arr, calls, applied, stdout,
                   stderr, exitcode>>

\* Mutant of SaveFails: the exception is swallowed and the confirmation
\* is printed all the same.
SaveFails_swallowed ==
    /\ pc = "save"
    /\ events' = Append(events, "encode_failed")
    /\ pc' = "print"
    /\ UNCHANGED <<argv, args, fs, fs0, arr, result_arr, calls, applied, stdout,
                   stderr, exitcode>>

\* process_image: save raises (directory not writable, format not
\* supported); the exception is not caught anywhere.
SaveFails ==
    /\ pc = "save"
    /\ events' = Append(events, "encode_failed")
    /\ stderr' = Append(stderr, "traceback")
    /\ exitcode' = ExitError
    /\ pc' = "exit"
    /\ UNCHANGED <<argv, args, fs, fs0, arr, result_arr, calls, applied, stdout>>

\* process_image: the confirmation; then process_image and main return.
Confirm ==
    /\ pc = "print"
    /\ stdout' = Append(stdout, SavedMessage(args.operation, args.output))
    /\ exitcode' = ExitOk
    /\ pc' = "exit"
    /\ UNCHANGED <<argv, args, fs, fs0, arr, result_arr, calls, applied, events,
                   stderr>>

Next ==
    \/ ParseArgs
    \/ CheckInput
    \/ Open
    \/ Transform
    \/ Save
    \/ SaveFails
    \/ Confirm

Spec == Init /\ [][Next]_vars

\* The process is sequential and is always scheduled: it takes its next
\* step whenever it has one.
FairSpec == Spec /\ WF_vars(Next)

----------------------------------------------------------------------------
(* The array functions used as a library: one buffer, one key, one mode,   *)
(* and the orchestrators applied to the running result.                    *)

DecodedBuffers == {decode(f).arr : f \in {g \in InitialFiles : g.kind = "image"}}

InitLib ==
    /\ pc = "lib"
    /\ argv = NoArgv
    /\ \E k \in Keys, m \in Modes : args = Namespace("", "", "", k, m)
    /\ fs = [p \in Paths |-> Missing]
    /\ fs0 = fs
    /\ arr \in DecodedBuffers
    /\ result_arr = arr
    /\ calls = <<>>
    /\ applied = <<>>
    /\ events = <<>>
    /\ stdout = <<>>
    /\ stderr = <<>>
    /\ exitcode = Running

LibEncrypt ==
    /\ pc = "lib"
    /\ Len(applied) < MaxApplied
    /\ LET f == encrypt_array(result_arr, args.key, args.mode)
       IN  /\ result_arr' = f.arr
           /\ calls' = f.calls
    /\ applied' = Append(applied, "encrypt")
    /\ UNCHANGED <<pc, argv, args, fs, fs0, arr, events, stdout, stderr, exitcode>>

LibDecrypt ==
    /\ pc = "lib"
    /\ Len(applied) < MaxApplied
    /\ LET f == decrypt_array(result_arr, args.key, args.mode)
       IN  /\ result_arr' = f.arr
           /\ calls' = f.calls
    /\ applied' = Append(applied, "decrypt")
    /\ UNCHANGED <<pc, argv, args, fs, fs0, arr, events, stdout, stderr, exitcode>>

NextLib ==
    \/ LibEncrypt
    \/ LibDecrypt

SpecLib == InitLib /\ [][NextLib]_vars

----------------------------------------------------------------------------
(* Vocabulary of the properties *)

Elements(a) ==
    {a[i][j][c] : i \in 1..Len(a), j \in 1..Width(a), c \in 1..Channels}

IsUInt8Buffer(a) ==
    /\ Len(a) >= 1
    /\ \A i \in 1..Len(a) :
          /\ Len(a[i]) = Len(a[1])
          /\ Len(a[i]) >= 1
          /\ \A j \in 1..Len(a[i]) :
                /\ Len(a[i][j]) = Channels
                /\ \A c \in 1..Channels : a[i][j][c] \in 0..255

SameShape(a, b) ==
    /\ Len(a) = Len(b)
    /\ \A i \in 1..Len(a) :
          /\ Len(a[i]) = Len(b[i])
          /\ \A j \in 1..Len(a[i]) : Len(a[i][j]) = Len(b[i][j])

Bit(v, b) == (v \div (2 ^ b)) % 2

Positions(a) == {<<i, j>> : i \in 1..Len(a), j \in 1..Width(a)}

PixelBag(a) ==
    [p \in {a[q[1]][q[2]] : q \in Positions(a)} |->
        Cardinality({q \in Positions(a) : a[q[1]][q[2]] = p})]

FnNames(trace) == [n \in 1..Len(trace) |-> trace[n].fn]

CallsOf(fn) == {n \in 1..Len(calls) : calls[n].fn = fn}

\* A buffer on which both primitives are visible: reversal moves a pixel.
Asymmetric(a) == a[1][1] /= a[Len(a)][Width(a)]

Confirmed == \E n \in 1..Len(stdout) : stdout[n] = SavedMessage(args.operation, args.output)

----------------------------------------------------------------------------
(* Properties of the array functions, checked under SpecLib *)

\* C1: decrypt_array after encrypt_array, with the same key and mode,
\* returns the starting buffer element for element, for every key in 0..255
\* and every mode; swap_pixels twice and xor_pixels twice with one key are
\* the identity on the starting buffer and on the first result.
C1_RoundTrip ==
    /\ applied = <<"encrypt", "decrypt">> => result_arr = arr
    /\ Len(applied) <= 1 =>
          /\ swap_pixels(swap_pixels(result_arr)) = result_arr
          /\ xor_pixels(xor_pixels(result_arr, args.key), args.key) = result_arr

C1_Witness ==
    /\ applied = <<"encrypt", "decrypt">>
    /\ args.mode = "both"
    /\ args.key = DefaultKey
    /\ arr = GenBuffer(MaxH, MaxW, 0, 1)
    /\ FnNames(calls) = <<"swap_pixels", "xor_pixels">>
    /\ calls[1].arg /= arr
    /\ result_arr = arr

\* C5: the same orchestrator applied twice with the same key and mode
\* returns the starting buffer, in every mode: encrypt_array twice and
\* decrypt_array twice are both the identity.
C5_SameOperationTwice ==
    (applied = <<"encrypt", "encrypt">> \/ applied = <<"decrypt", "decrypt">>)
        => result_arr = arr

C5_Witness ==
    /\ applied = <<"encrypt", "encrypt">>
    /\ args.mode = "both"
    /\ args.key = 10
    /\ Asymmetric(arr)
    /\ calls[1].arg /= arr
    /\ result_arr = arr

\* C9 as stated: in mode both a second application restores the starting
\* buffer only when it uses the mirrored order (here on buffers and keys
\* for which neither primitive is the identity).
C9_MirroredOrderRequired ==
    (/\ args.mode = "both"
     /\ Len(applied) = 2
     /\ args.key /= 0
     /\ Asymmetric(arr)
     /\ result_arr = arr)
        => applied[1] /= applied[2]

\* C9 amended: in mode both encrypt_array and decrypt_array are the same
\* function (XOR changes values, reversal changes positions, so the two
\* commute), and a second application restores the starting buffer whether
\* it uses the mirrored order or the same order.
C9_OrderIrrelevant ==
    args.mode = "both" =>
        /\ Len(applied) = 1 =>
               /\ result_arr = encrypt_array(arr, args.key, "both").arr
               /\ result_arr = decrypt_array(arr, args.key, "both").arr
        /\ Len(applied) = 2 => result_arr = arr

C9_Witness ==
    /\ args.mode = "both"
    /\ applied = <<"decrypt", "decrypt">>
    /\ args.key = KeyMax
    /\ Asymmetric(arr)
    /\ calls[1].arg /= arr
    /\ result_arr = arr

\* C6: swap_pixels keeps the dimensions H x W x 3 and puts at (i, j, c) the
\* element that was at (H-1-i, W-1-j, c) (0-based): rows and columns are
\* reversed, the channel order and the multiset of pixels are unchanged.
C6_SwapReversesRowsAndColumns ==
    \A n \in CallsOf("swap_pixels") :
        LET B == calls[n].arg
            R == calls[n].ret
            H == Len(B)
            W == Len(B[1])
        IN  /\ SameShape(R, B)
            /\ IsUInt8Buffer(R)
            /\ \A i \in 1..H, j \in 1..W, c \in 1..Channels :
                  R[i][j][c] = B[H + 1 - i][W + 1 - j][c]
            /\ R[1][1] = B[H][W]
            /\ PixelBag(R) = PixelBag(B)

C6_Witness ==
    \E n \in CallsOf("swap_pixels") :
        /\ Len(calls[n].arg) = MaxH
        /\ Len(calls[n].arg[1]) = MaxW
        /\ calls[n].arg[1][1] /= calls[n].arg[MaxH][MaxW]
        /\ calls[n].ret[1][1] = calls[n].arg[MaxH][MaxW]
        /\ calls[n].ret[MaxH][1] = calls[n].arg[1][MaxW]

\* C7: xor_pixels keeps the shape and replaces every element v by the
\* 8-bit exclusive or of v and the key: bit b of the result is the sum
\* modulo 2 of bit b of v and bit b of the key.  Key 0 returns the buffer
\* unchanged and key 255 maps v to 255 - v.
C7_XorElementwise ==
    \A n \in CallsOf("xor_pixels") :
        LET B == calls[n].arg
            R == calls[n].ret
            k == calls[n].key
        IN  /\ SameShape(R, B)
            /\ \A i \in 1..Len(B), j \in 1..Len(B[1]), c \in 1..Channels :
                  /\ R[i][j][c] \in 0..255
                  /\ \A b \in 0..7 :
                        Bit(R[i][j][c], b) = (Bit(B[i][j][c], b) + Bit(k, b)) % 2
                  /\ k = 0 => R[i][j][c] = B[i][j][c]
                  /\ k = 255 => R[i][j][c] = 255 - B[i][j][c]

C7_Witness ==
    \E n \in CallsOf("xor_pixels") :
        /\ calls[n].key = 255
        /\ calls[n].arg = GenBuffer(MaxH, MaxW, 250, 7)
        /\ calls[n].ret[1][1] = <<5, 254, 247>>

\* C8: from a decoded buffer with elements in 0..255 and a key in 0..255,
\* the result of every primitive call and the buffer held after every
\* orchestrator call are H x W x 3 buffers with every element in 0..255
\* (every call is in the trace in the state that follows it).
C8_RangeInvariant ==
    /\ IsUInt8Buffer(arr)
    /\ \A n \in 1..Len(calls) : IsUInt8Buffer(calls[n].ret)
    /\ IsUInt8Buffer(result_arr)

C8_Witness ==
    /\ Len(applied) = 2
    /\ args.mode = "both"
    /\ args.key = 200
    /\ Len(calls) = 2
    /\ \E v \in Elements(arr) : v + args.key > 255
    /\ IsUInt8Buffer(result_arr)

----------------------------------------------------------------------------
(* Properties of one invocation of main, checked under Spec and FairSpec *)

Transformed == pc \in {"save", "print"} \/ (pc = "exit" /\ Len(events) >= 2)

\* C2: the primitives are applied in the order fixed by mode and direction:
\* encrypt both is XOR then reversal, decrypt both is reversal then XOR,
\* mode swap is one reversal and no XOR, mode math is one XOR and no
\* reversal, in both directions; each call works on the result of the one
\* before it, and XOR is called with the key of the command line.
C2_PrimitiveOrder ==
    Transformed =>
        /\ FnNames(calls) =
              CASE args.mode = "both" /\ args.operation = "encrypt"
                       -> <<"xor_pixels", "swap_pixels">>
                [] args.mode = "both" /\ args.operation = "decrypt"
                       -> <<"swap_pixels", "xor_pixels">>
                [] args.mode = "swap" -> <<"swap_pixels">>
                [] args.mode = "math" -> <<"xor_pixels">>
        /\ calls[1].arg = arr
        /\ \A n \in 1..(Len(calls) - 1) : calls[n + 1].arg = calls[n].ret
        /\ calls[Len(calls)].ret = result_arr
        /\ \A n \in CallsOf("xor_pixels") : calls[n].key = args.key

C2_Witness ==
    /\ pc = "print"
    /\ args.operation = "decrypt"
    /\ args.mode = "both"
    /\ FnNames(calls) = <<"swap_pixels", "xor_pixels">>
    /\ Asymmetric(arr)
    /\ calls[1].ret /= arr
    /\ calls[2].ret /= calls[1].ret

RejectedKeyTexts ==
    {<<"2", "5", "6">>, <<"-", "1">>, <<"a", "b", "c">>, <<"1", ".", "5">>,
     <<"-">>, <<>>}

OtherArgumentsValid ==
    /\ argv.operation \in {"encrypt", "decrypt"}
    /\ argv.mode.given => argv.mode.text \in {<<"swap">>, <<"math">>, <<"both">>}

UsageError ==
    /\ pc = "exit"
    /\ exitcode = 2
    /\ stderr = <<"usage">>

NoFileIO ==
    /\ events = <<>>
    /\ calls = <<>>
    /\ arr = None
    /\ result_arr = None
    /\ fs = fs0

\* C3: a --key text that is no integer or is outside 0..255 ends the
\* invocation with a usage error (status 2) with no decode, transform or
\* encode and the files untouched; "0" and "255" are accepted as 0 and 255,
\* an omitted --key gives 123; every key passed to xor_pixels is in 0..255.
C3_KeyValidation ==
    /\ (pc /= "parse_args" /\ argv.key.given /\ argv.key.text \in RejectedKeyTexts)
          => (UsageError /\ NoFileIO /\ stdout = <<>>)
    /\ (pc /= "parse_args" /\ OtherArgumentsValid) =>
          /\ (argv.key = Given(<<"0">>)) => (~UsageError /\ args.key = 0)
          /\ (argv.key = Given(<<"2", "5", "5">>)) => (~UsageError /\ args.key = 255)
          /\ (~argv.key.given) => (~UsageError /\ args.key = 123)
    /\ \A n \in CallsOf("xor_pixels") : calls[n].key \in 0..255

C3_Witness ==
    /\ argv.key = Given(<<"2", "5", "6">>)
    /\ OtherArgumentsValid
    /\ isfile(fs, argv.input)
    /\ UsageError
    /\ NoFileIO

\* C4: when the input path names no existing file, main prints the error
\* message and returns (status 0, no traceback) without entering
\* process_image: no decode, no transform, no encode, and every file,
\* the output file included, is as it was.
C4_MissingInput ==
    (pc \notin {"parse_args", "isfile"} /\ args /= NoArgs /\ ~isfile(fs0, args.input))
        => /\ pc = "exit"
           /\ stdout = <<ErrorMessage(args.input)>>
           /\ stderr = <<>>
           /\ exitcode = 0
           /\ NoFileIO

C4_Witness ==
    /\ pc = "exit"
    /\ args.input = "b.png"
    /\ args.output = "a.png"
    /\ ~isfile(fs0, "b.png")
    /\ stdout = <<ErrorMessage("b.png")>>
    /\ fs["a.png"] = fs0["a.png"]
    /\ fs0["a.png"].kind = "image"

Steps == <<"parse_args", "isfile", "open", "transform", "save", "print", "exit">>

Rank(p) == CHOOSE n \in 1..Len(Steps) : Steps[n] = p

\* C10: every invocation terminates; it performs at most one decode, then
\* at most one transform, then at most one encode, and never repeats a
\* step; a failed decode or encode ends it (status 1) with no confirmation;
\* the confirmation is printed only after the encode has completed, names
\* the operation and the output path, and is followed by status 0.
C10_OneShot ==
    /\ [](events \in {<<>>, <<"decode_failed">>, <<"decode">>,
                      <<"decode", "transform">>,
                      <<"decode", "transform", "encode_failed">>,
                      <<"decode", "transform", "encode">>})
    /\ []((\E n \in 1..Len(events) : events[n] \in {"decode_failed", "encode_failed"})
             => (pc = "exit" /\ exitcode = 1 /\ stdout = <<>>))
    /\ [](stdout /= <<>> /\ stdout /= <<ErrorMessage(args.input)>>
             => /\ stdout = <<SavedMessage(args.operation, args.output)>>
                /\ stdout[1].text =
                      (IF argv.operation = "encrypt" THEN "Encrypted image saved to"
                       ELSE "Decrypted image saved to")
                /\ stdout[1].path = argv.output
                /\ events = <<"decode", "transform", "encode">>
                /\ fs[args.output] = encode(result_arr)
                /\ pc = "exit"
                /\ exitcode = 0)
    /\ []((pc = "exit") <=> (exitcode /= Running))
    /\ [][Rank(pc') > Rank(pc)]_vars
    /\ <>(pc = "exit")

C10_Witness ==
    /\ pc = "exit"
    /\ exitcode = 0
    /\ events = <<"decode", "transform", "encode">>
    /\ stdout = <<SavedMessage("encrypt", "b.png")>>
    /\ fs["b.png"] = encode(result_arr)
    /\ fs0["b.png"] = Missing

====
